---- MODULE Spec2Model ----
(***************************************************************************)
(* Tetrs: the rules engine of src/src/game.rs (Tetromino, TetrominosBag,   *)
(* Playfield::clear_lines), the playfield of src/src/ui.rs and the control *)
(* loop of src/src/main.rs.                                                *)
(*                                                                         *)
(* Coordinates are (x, y) = (column, row) pairs <<x, y>>, row 0 at the top.*)
(* Arrays and vectors are functions over 0..n-1, so that indices are the   *)
(* indices of the code.  An operation that would panic (an index outside a *)
(* vector, an unsigned underflow) reports panic |-> TRUE and the control   *)
(* loop stops at "panicked".                                               *)
(***************************************************************************)
EXTENDS Integers, Sequences, FiniteSets, TLC

VARIABLES
    playfield,   \* ui::Playfield: rect, x_scaling, tiles
    tetromino,   \* main's `tetromino`: shape, body, color, rotation
    bag,         \* TetrominosBag: tetrominos, index
    pc,          \* position of the control loop
    result,      \* main's `result`
    went_down,   \* main's `went_down`
    pieces,      \* number of pieces spawned so far
    call,        \* the last core call of this iteration: operation, argument, return value
    pre,         \* playfield and tetromino as they were before `call`
    drawn,       \* the shapes returned by TetrominosBag::get, in order
    downs,       \* the shift(Down) calls that returned Ok since the loop's top
    rx_input,    \* the channel of the input thread: the key that waits in it, or "none"
    rx_timer,    \* the channel of the timer thread: a tick waits in it
    key,         \* the key rx_input.recv_timeout gave this iteration, or "none"
    tick,        \* rx_timer.recv_timeout gave Ok(true) this iteration
    accept_input \* the bool behind the mutex accept_input

\* The channels, and what the loop has received from them
channels == <<rx_input, rx_timer>>
received == <<key, tick>>

vars == <<playfield, tetromino, bag, pc, result, went_down, pieces, call, pre, drawn, downs,
          channels, received, accept_input>>

----------------------------------------------------------------------------
(* Bounds of the model. *)

\* Playfield::new's width and height (main passes 10 and 20).
Width == 4
Height == 4
\* Pieces the control loop plays before it stops taking commands.
MaxPieces == 2
\* Outcomes of one shuffle that are explored, in the control loop and for
\* the bag alone.
MaxShuffle == 7
MaxBagShuffle == 12
\* Blocks of 7 draws explored for the bag alone.
MaxRounds == 2
\* Pieces and shuffle outcomes explored with the input and timer threads.
MaxThreadPieces == 1
MaxThreadShuffle == 1
\* Grids explored for clear_lines alone.
ClearWidth == 2
ClearHeight == 5

----------------------------------------------------------------------------
(* Program constants. *)

PLAYFIELD_ROWS == 20
PLAYFIELD_COLS == 10
X_SCALING == 2
Y_SCALING == 1
BORDER_PIXELS == 2
BAG_LEN == 7
BODY_LEN == 4

\* usize is 64 bits wide; TLC's integers are not.  A negative i32 cast with
\* `as usize` lands at 2^64 - n, beyond every vector length: UsizeWrap stands
\* for 2^64 and is likewise beyond every length of the model.
UsizeWrap == 2 ^ 30

AsUsize(z) == IF z < 0 THEN UsizeWrap + z ELSE z

Body == 0 .. (BODY_LEN - 1)

Min(S) == CHOOSE m \in S : \A n \in S : m <= n

----------------------------------------------------------------------------
(* ui.rs: Playcell, Playfield *)

\* Option<Playcell>::None
None == [some |-> FALSE, is_active |-> FALSE, color |-> "None"]

\* Some(Playcell::new(is_active, color))
Playcell(is_active, color) == [some |-> TRUE, is_active |-> is_active, color |-> color]

\* Playfield::new; the rect's origin depends on the terminal size alone and
\* is left out.
PlayfieldNew(width, height, x_scaling, y_scaling) ==
    [rect |-> [width |-> width * x_scaling + BORDER_PIXELS,
               height |-> height * y_scaling + BORDER_PIXELS],
     tiles |-> [y \in 0 .. (height - 1) |-> [x \in 0 .. (width - 1) |-> None]],
     x_scaling |-> x_scaling,
     y_scaling |-> y_scaling]

GetXMidpoint(pf) == ((pf.rect.width - 2) \div pf.x_scaling) \div 2

----------------------------------------------------------------------------
(* game.rs: Tetromino *)

RotationStates == {"Normal", "QuarterTurned", "HalfTurned", "ThreeQuartersTurned"}

Tetromino(shape, body, color) ==
    [shape |-> shape,
     body |-> [i \in Body |-> body[i + 1]],
     color |-> color,
     rotation |-> "Normal"]

\* get_length as it would be without the + 1
GetLengthIsMax(t) ==
    LET xs == {t.body[i][1] : i \in Body} \cup {0}
        max == CHOOSE m \in xs : \A n \in xs : m >= n
        min == Min(xs)
    IN  max + min

\* max and min both start at 0
GetLength(t) ==
    LET xs == {t.body[i][1] : i \in Body} \cup {0}
        max == CHOOSE m \in xs : \A n \in xs : m >= n
        min == Min(xs)
    IN  max + min + 1

\* The cells of a body, as a set
Cells(body) == {body[i] : i \in DOMAIN body}

\* tiles[y][x] is inside the vectors (it panics otherwise)
InGrid(c, tiles) == c[2] \in DOMAIN tiles /\ c[1] \in DOMAIN tiles[c[2]]

\* for (x, y) in body { tiles[y][x] = cell }, from index i on
RECURSIVE SetCells(_, _, _, _)
SetCells(tiles, body, i, cell) ==
    IF i \notin Body THEN tiles
    ELSE SetCells([tiles EXCEPT ![body[i][2]][body[i][1]] = cell], body, i + 1, cell)

\* The usize subtraction underflows when the piece is longer than the grid
\* is wide, and tiles[y][x] panics outside the grid: panic is TRUE then.
Spawn(t, pf) ==
    LET middle_point == GetXMidpoint(pf) - (GetLength(t) \div 2)
        body == [i \in Body |-> <<t.body[i][1] + middle_point, t.body[i][2]>>]
    IN  IF middle_point < 0 \/ \E i \in Body : ~InGrid(body[i], pf.tiles)
        THEN [tetromino |-> t, playfield |-> pf, panic |-> TRUE]
        ELSE [tetromino |-> [t EXCEPT !.body = body],
              playfield |-> [pf EXCEPT !.tiles = SetCells(pf.tiles, body, 0, Playcell(TRUE, t.color))],
              panic |-> FALSE]

\* for (x, y) in body { if let Some(cell) = &mut tiles[y][x] { cell.is_active = false } },
\* from index i on
RECURSIVE DeactivateCells(_, _, _)
DeactivateCells(tiles, body, i) ==
    IF i \notin Body THEN tiles
    ELSE LET x == body[i][1]
             y == body[i][2]
         IN  DeactivateCells(
                 IF tiles[y][x].some
                 THEN [tiles EXCEPT ![y][x] = [tiles[y][x] EXCEPT !.is_active = FALSE]]
                 ELSE tiles,
                 body, i + 1)

PlaceInPlayfield(t, pf) ==
    IF \E i \in Body : ~InGrid(t.body[i], pf.tiles)
    THEN [playfield |-> pf, panic |-> TRUE]
    ELSE [playfield |-> [pf EXCEPT !.tiles = DeactivateCells(pf.tiles, t.body, 0)],
          panic |-> FALSE]

\* change_position as it would be without the loop that empties the old body
ChangePositionKeepsOld(t, new_body, pf) ==
    IF \E i \in Body : ~InGrid(t.body[i], pf.tiles) \/ ~InGrid(new_body[i], pf.tiles)
    THEN [tetromino |-> t, playfield |-> pf, panic |-> TRUE]
    ELSE [tetromino |-> [t EXCEPT !.body = new_body],
          playfield |-> [pf EXCEPT !.tiles =
              SetCells(pf.tiles, new_body, 0, Playcell(TRUE, t.color))],
          panic |-> FALSE]

\* First every cell of the old body becomes None, then every cell of the new
\* body Some(active): a cell in both ends up active.
ChangePosition(t, new_body, pf) ==
    IF \E i \in Body : ~InGrid(t.body[i], pf.tiles) \/ ~InGrid(new_body[i], pf.tiles)
    THEN [tetromino |-> t, playfield |-> pf, panic |-> TRUE]
    ELSE [tetromino |-> [t EXCEPT !.body = new_body],
          playfield |-> [pf EXCEPT !.tiles =
              SetCells(SetCells(pf.tiles, t.body, 0, None), new_body, 0,
                       Playcell(TRUE, t.color))],
          panic |-> FALSE]

\* collides as it would be without the test of is_active
CollidesAtIgnoresLocked(c, pf, direction) ==
    IF c[2] \notin DOMAIN pf.tiles THEN "BottomCollision"
    ELSE IF c[1] \notin DOMAIN pf.tiles[c[2]] THEN "BorderCollision"
    ELSE "Ok"

\* collides as it would be with BottomCollision for a locked cell in every
\* direction
CollidesAtAlwaysBottom(c, pf, direction) ==
    IF c[2] \notin DOMAIN pf.tiles THEN "BottomCollision"
    ELSE IF c[1] \notin DOMAIN pf.tiles[c[2]] THEN "BorderCollision"
    ELSE IF pf.tiles[c[2]][c[1]].some /\ ~pf.tiles[c[2]][c[1]].is_active
         THEN "BottomCollision"
    ELSE "Ok"

\* What one candidate coordinate yields: "Ok" or the error of the `?` or
\* `return` it runs into.
CollidesAt(c, pf, direction) ==
    IF c[2] \notin DOMAIN pf.tiles THEN "BottomCollision"
    ELSE IF c[1] \notin DOMAIN pf.tiles[c[2]] THEN "BorderCollision"
    ELSE IF pf.tiles[c[2]][c[1]].some /\ ~pf.tiles[c[2]][c[1]].is_active
         THEN (IF direction = "Down" THEN "BottomCollision" ELSE "BorderCollision")
    ELSE "Ok"

\* for (x, y) in new_body, from index i on: the first coordinate that is an
\* error returns it.
RECURSIVE CollidesFrom(_, _, _, _)
CollidesFrom(new_body, pf, direction, i) ==
    IF i \notin Body THEN "Ok"
    ELSE IF CollidesAt(new_body[i], pf, direction) # "Ok"
    THEN CollidesAt(new_body[i], pf, direction)
    ELSE CollidesFrom(new_body, pf, direction, i + 1)

Collides(new_body, pf, direction) == CollidesFrom(new_body, pf, direction, 0)

Directions == {"Up", "Down", "Left", "Right"}

\* The match of shift as it would be with Left and Right the other way round
ShiftedBodyLeftIsMinus(body, direction) ==
    [i \in Body |->
        CASE direction = "Up"    -> <<body[i][1], body[i][2] - 1>>
          [] direction = "Down"  -> <<body[i][1], body[i][2] + 1>>
          [] direction = "Right" -> <<body[i][1] + 1, body[i][2]>>
          [] direction = "Left"  -> <<body[i][1] - 1, body[i][2]>>]

\* The body after the match of shift: Up and Right subtract with checked_sub,
\* Down and Left add.
ShiftedBody(body, direction) ==
    [i \in Body |->
        CASE direction = "Up"    -> <<body[i][1], body[i][2] - 1>>
          [] direction = "Down"  -> <<body[i][1], body[i][2] + 1>>
          [] direction = "Right" -> <<body[i][1] - 1, body[i][2]>>
          [] direction = "Left"  -> <<body[i][1] + 1, body[i][2]>>]

\* checked_sub(1) is None for some coordinate
ShiftUnderflows(body, direction) ==
    \/ direction = "Up" /\ \E i \in Body : body[i][2] = 0
    \/ direction = "Right" /\ \E i \in Body : body[i][1] = 0

Shift(t, pf, direction) ==
    LET new_body == ShiftedBody(t.body, direction)
        hit == Collides(new_body, pf, direction)
        moved == ChangePosition(t, new_body, pf)
    IN  IF ShiftUnderflows(t.body, direction)
        THEN [ret |-> "BorderCollision", tetromino |-> t, playfield |-> pf, panic |-> FALSE]
        ELSE IF hit # "Ok"
        THEN [ret |-> hit, tetromino |-> t, playfield |-> pf, panic |-> FALSE]
        ELSE [ret |-> "Ok", tetromino |-> moved.tetromino,
              playfield |-> moved.playfield, panic |-> moved.panic]

\* The while loop of hard_drop: the first body, going down from `body`, that
\* collides.
RECURSIVE DropUntilCollision(_, _)
DropUntilCollision(body, pf) ==
    IF Collides(body, pf, "Down") = "Ok"
    THEN DropUntilCollision(ShiftedBody(body, "Down"), pf)
    ELSE body

\* hard_drop as it would be without the loop that takes the last row back
HardDropNoBackOff(t, pf) ==
    LET collided == DropUntilCollision(t.body, pf)
        moved == ChangePosition(t, collided, pf)
    IN  [ret |-> "BottomCollision", tetromino |-> moved.tetromino,
         playfield |-> moved.playfield, panic |-> moved.panic]

\* hard_drop as it would be if it went down by one row where it can
HardDropOneRow(t, pf) ==
    LET below == ShiftedBody(t.body, "Down")
        moved == ChangePosition(t, below, pf)
    IN  IF Collides(below, pf, "Down") = "Ok"
        THEN [ret |-> "BottomCollision", tetromino |-> moved.tetromino,
              playfield |-> moved.playfield, panic |-> moved.panic]
        ELSE [ret |-> "BottomCollision", tetromino |-> t, playfield |-> pf, panic |-> FALSE]

\* `*y -= 1` underflows on row 0
HardDrop(t, pf) ==
    LET collided == DropUntilCollision(t.body, pf)
        new_body == ShiftedBody(collided, "Up")
        moved == ChangePosition(t, new_body, pf)
    IN  IF \E i \in Body : collided[i][2] = 0
        THEN [ret |-> "BottomCollision", tetromino |-> t, playfield |-> pf, panic |-> TRUE]
        ELSE [ret |-> "BottomCollision", tetromino |-> moved.tetromino,
              playfield |-> moved.playfield, panic |-> moved.panic]

\* new_coords as it would be with the clockwise arm alone
RotatedCoordsAlwaysClockwise(body, clockwise) ==
    LET x_pivot == body[0][1]
        y_pivot == body[0][2]
    IN  [i \in Body |->
            LET x_relative == body[i][1] - x_pivot
                y_relative == body[i][2] - y_pivot
                x_swapped == y_relative
                y_swapped == x_relative
            IN  <<(-x_swapped) + x_pivot, y_swapped + y_pivot>>]

\* new_coords: each cell relative to body[0], swapped, one sign flipped,
\* and moved back (signed)
RotatedCoords(body, clockwise) ==
    LET x_pivot == body[0][1]
        y_pivot == body[0][2]
    IN  [i \in Body |->
            LET x_relative == body[i][1] - x_pivot
                y_relative == body[i][2] - y_pivot
                \* after swap(&mut x_relative, &mut y_relative)
                x_swapped == y_relative
                y_swapped == x_relative
            IN  IF clockwise
                THEN <<(-x_swapped) + x_pivot, y_swapped + y_pivot>>
                ELSE <<x_swapped + x_pivot, (-y_swapped) + y_pivot>>]

\* new_rotation as it would be with the clockwise arms alone
NewRotationAlwaysClockwise(rotation, clockwise) ==
    CASE rotation = "Normal" -> "QuarterTurned"
      [] rotation = "QuarterTurned" -> "HalfTurned"
      [] rotation = "HalfTurned" -> "ThreeQuartersTurned"
      [] rotation = "ThreeQuartersTurned" -> "Normal"

NewRotation(rotation, clockwise) ==
    CASE rotation = "Normal" /\ clockwise -> "QuarterTurned"
      [] rotation = "Normal" /\ ~clockwise -> "ThreeQuartersTurned"
      [] rotation = "QuarterTurned" /\ clockwise -> "HalfTurned"
      [] rotation = "QuarterTurned" /\ ~clockwise -> "Normal"
      [] rotation = "HalfTurned" /\ clockwise -> "ThreeQuartersTurned"
      [] rotation = "HalfTurned" /\ ~clockwise -> "QuarterTurned"
      [] rotation = "ThreeQuartersTurned" /\ clockwise -> "Normal"
      [] rotation = "ThreeQuartersTurned" /\ ~clockwise -> "HalfTurned"

\* from_rotation when shape is 'I'
FromRotationI ==
    [Normal              |-> << <<0, 0>>, <<-1, 0>>, <<2, 0>>, <<-1, 0>>, <<2, 0>> >>,
     QuarterTurned       |-> << <<-1, 0>>, <<0, 0>>, <<0, 0>>, <<0, 1>>, <<0, -2>> >>,
     HalfTurned          |-> << <<-1, 1>>, <<1, 1>>, <<-2, 1>>, <<1, 0>>, <<-2, 0>> >>,
     ThreeQuartersTurned |-> << <<0, 1>>, <<0, 1>>, <<0, 1>>, <<0, -1>>, <<0, 2>> >>]

\* from_rotation for the other shapes
FromRotationOther ==
    [Normal              |-> << <<0, 0>>, <<0, 0>>, <<0, 0>>, <<0, 0>>, <<0, 0>> >>,
     QuarterTurned       |-> << <<0, 0>>, <<1, 0>>, <<1, -1>>, <<0, 2>>, <<1, 2>> >>,
     HalfTurned          |-> << <<0, 0>>, <<0, 0>>, <<0, 0>>, <<0, 0>>, <<0, 0>> >>,
     ThreeQuartersTurned |-> << <<0, 0>>, <<-1, 0>>, <<-1, -1>>, <<0, 2>>, <<-1, 2>> >>]

FromRotation(shape) == IF shape = "I" THEN FromRotationI ELSE FromRotationOther

KICKS == 5
Kicks == 0 .. (KICKS - 1)

\* wallkick_tries: the zip of the two states' entries, from minus to
WallkickTries(shape, rotation, new_rotation) ==
    LET from == FromRotation(shape)[rotation]
        to == FromRotation(shape)[new_rotation]
    IN  [k \in Kicks |-> <<from[k + 1][1] - to[k + 1][1], from[k + 1][2] - to[k + 1][2]>>]

\* A variant of to_try that adds y_to_try to the row
ToTryAddsRow(new_coords, kick) ==
    [i \in Body |-> <<AsUsize(new_coords[i][1] + kick[1]), AsUsize(new_coords[i][2] + kick[2])>>]

\* to_try: x + x_to_try and y - y_to_try, each cast with `as usize`
ToTry(new_coords, kick) ==
    [i \in Body |-> <<AsUsize(new_coords[i][1] + kick[1]), AsUsize(new_coords[i][2] - kick[2])>>]

\* for (x_to_try, y_to_try) in wallkick_tries, from index k on: the index of
\* the first try that does not collide, KICKS when there is none.
RECURSIVE FirstKick(_, _, _, _)
FirstKick(new_coords, wallkick_tries, pf, k) ==
    IF k \notin Kicks THEN KICKS
    ELSE IF Collides(ToTry(new_coords, wallkick_tries[k]), pf, "Up") = "Ok" THEN k
    ELSE FirstKick(new_coords, wallkick_tries, pf, k + 1)

\* What self.collides(&to_try, playfield, Direction::Up) returned for each
\* try the for loop made, from index k on: the loop breaks at the first Ok.
RECURSIVE Probes(_, _, _, _)
Probes(new_coords, wallkick_tries, pf, k) ==
    IF k \notin Kicks THEN <<>>
    ELSE LET hit == Collides(ToTry(new_coords, wallkick_tries[k]), pf, "Up")
         IN  IF hit = "Ok" THEN <<hit>>
             ELSE <<hit>> \o Probes(new_coords, wallkick_tries, pf, k + 1)

\* A variant of rotate without the early return for an O
RotateTurnsTheO(t, pf, clockwise) ==
    LET new_coords == RotatedCoords(t.body, clockwise)
        new_rotation == NewRotation(t.rotation, clockwise)
        wallkick_tries == WallkickTries(t.shape, t.rotation, new_rotation)
        first == FirstKick(new_coords, wallkick_tries, pf, 0)
        moved == ChangePosition(t, ToTry(new_coords, wallkick_tries[first]), pf)
    IN  IF first = KICKS
        THEN [ret |-> "Unit", tetromino |-> t, playfield |-> pf, panic |-> FALSE, kick |-> KICKS,
              probes |-> Probes(new_coords, wallkick_tries, pf, 0)]
        ELSE [ret |-> "Unit",
              tetromino |-> [moved.tetromino EXCEPT !.rotation = new_rotation],
              playfield |-> moved.playfield, panic |-> moved.panic, kick |-> first,
              probes |-> Probes(new_coords, wallkick_tries, pf, 0)]

\* A variant of rotate that advances the rotation state even when no try
\* was accepted
RotateAdvancesWhenRejected(t, pf, clockwise) ==
    LET new_coords == RotatedCoords(t.body, clockwise)
        new_rotation == NewRotation(t.rotation, clockwise)
        wallkick_tries == WallkickTries(t.shape, t.rotation, new_rotation)
        first == FirstKick(new_coords, wallkick_tries, pf, 0)
        moved == ChangePosition(t, ToTry(new_coords, wallkick_tries[first]), pf)
    IN  IF t.shape = "O"
        THEN [ret |-> "Unit", tetromino |-> t, playfield |-> pf, panic |-> FALSE, kick |-> -1,
              probes |-> <<>>]
        ELSE IF first = KICKS
        THEN [ret |-> "Unit", tetromino |-> [t EXCEPT !.rotation = new_rotation],
              playfield |-> pf, panic |-> FALSE, kick |-> KICKS,
              probes |-> Probes(new_coords, wallkick_tries, pf, 0)]
        ELSE [ret |-> "Unit",
              tetromino |-> [moved.tetromino EXCEPT !.rotation = new_rotation],
              playfield |-> moved.playfield, panic |-> moved.panic, kick |-> first,
              probes |-> Probes(new_coords, wallkick_tries, pf, 0)]

\* rotate returns nothing; `kick` is the index of the try that was committed,
\* KICKS when none was, and -1 for the early return of an O.
Rotate(t, pf, clockwise) ==
    LET new_coords == RotatedCoords(t.body, clockwise)
        new_rotation == NewRotation(t.rotation, clockwise)
        wallkick_tries == WallkickTries(t.shape, t.rotation, new_rotation)
        first == FirstKick(new_coords, wallkick_tries, pf, 0)
        moved == ChangePosition(t, ToTry(new_coords, wallkick_tries[first]), pf)
    IN  IF t.shape = "O"
        THEN [ret |-> "Unit", tetromino |-> t, playfield |-> pf, panic |-> FALSE, kick |-> -1,
              probes |-> <<>>]
        ELSE IF first = KICKS
        THEN [ret |-> "Unit", tetromino |-> t, playfield |-> pf, panic |-> FALSE, kick |-> KICKS,
              probes |-> Probes(new_coords, wallkick_tries, pf, 0)]
        ELSE [ret |-> "Unit",
              tetromino |-> [moved.tetromino EXCEPT !.rotation = new_rotation],
              playfield |-> moved.playfield, panic |-> moved.panic, kick |-> first,
              probes |-> Probes(new_coords, wallkick_tries, pf, 0)]

----------------------------------------------------------------------------
(* game.rs: TetrominosBag *)

Slots == 0 .. (BAG_LEN - 1)

Shapes == {"O", "I", "J", "L", "S", "Z", "T"}

TetrominosBagNew ==
    [tetrominos |->
        [i \in Slots |->
            << Tetromino("O", << <<0, 0>>, <<0, 1>>, <<1, 0>>, <<1, 1>> >>, "Yellow"),
               Tetromino("I", << <<1, 0>>, <<2, 0>>, <<0, 0>>, <<3, 0>> >>, "Cyan"),
               Tetromino("J", << <<1, 1>>, <<0, 1>>, <<0, 0>>, <<2, 1>> >>, "Gray"),
               Tetromino("L", << <<1, 1>>, <<0, 1>>, <<2, 1>>, <<2, 0>> >>, "Blue"),
               Tetromino("S", << <<1, 1>>, <<0, 1>>, <<1, 0>>, <<2, 0>> >>, "Green"),
               Tetromino("Z", << <<1, 1>>, <<1, 0>>, <<0, 0>>, <<2, 1>> >>, "Red"),
               Tetromino("T", << <<1, 1>>, <<0, 1>>, <<1, 0>>, <<2, 1>> >>, "White") >>[i + 1]],
     index |-> 0]

\* The k-th permutation of the slots, k in 0 .. 5039: slot k % BAG_LEN comes
\* first, and k \div BAG_LEN, read digit by digit, picks each later one among
\* the slots that are left (taken round from the first).  Every permutation
\* is ShuffleOutcome(k) for exactly one k; the first BAG_LEN are the slots
\* moved round by 0, 1, ... places.
RECURSIVE PickFrom(_, _)
PickFrom(rest, j) ==
    IF Len(rest) = 0 THEN <<>>
    ELSE LET pick == (j % Len(rest)) + 1
         IN  <<rest[pick]>> \o
             PickFrom(SubSeq(rest, 1, pick - 1) \o SubSeq(rest, pick + 1, Len(rest)),
                      j \div Len(rest))

ShuffleOutcome(k) ==
    LET first == k % BAG_LEN
        rest == [i \in 1 .. (BAG_LEN - 1) |-> (first + i) % BAG_LEN]
        order == <<first>> \o PickFrom(rest, k \div BAG_LEN)
    IN  [i \in Slots |-> order[i + 1]]

\* The outcomes of the random shuffle that are explored: the first n
ShuffleOutcomes(n) == {ShuffleOutcome(k) : k \in 0 .. (n - 1)}

\* The slice is permuted in place (slot i receives what slot perm[i] held)
\* and the index is reset.
Shuffle(b, perm) ==
    [tetrominos |-> [i \in Slots |-> b.tetrominos[perm[i]]], index |-> 0]

\* get as it would be with the reshuffle one draw early
GetReshufflesEarly(b, perm) ==
    LET shuffled == IF b.index >= BAG_LEN - 1 THEN Shuffle(b, perm) ELSE b
        index == shuffled.index + 1
    IN  [bag |-> [shuffled EXCEPT !.index = index],
         tetromino |-> shuffled.tetrominos[index - 1], panic |-> FALSE]

\* get: `perm` is the outcome of the shuffle, should it run.  The array
\* index panics outside the array.
Get(b, perm) ==
    LET shuffled == IF b.index >= BAG_LEN THEN Shuffle(b, perm) ELSE b
        index == shuffled.index + 1
    IN  IF (index - 1) \in Slots
        THEN [bag |-> [shuffled EXCEPT !.index = index],
              tetromino |-> shuffled.tetrominos[index - 1], panic |-> FALSE]
        ELSE [bag |-> [shuffled EXCEPT !.index = index],
              tetromino |-> shuffled.tetrominos[0], panic |-> TRUE]

----------------------------------------------------------------------------
(* game.rs: Playfield::clear_lines *)

RowIsFull(row) == \A x \in DOMAIN row : row[x].some

\* tiles.swap(a, b)
SwapRows(tiles, a, b) == [tiles EXCEPT ![a] = tiles[b], ![b] = tiles[a]]

\* The inner loop of clear_lines as it would be without .rev(): the swaps
\* run from row 0 up to `line`
RECURSIVE SwapForward(_, _, _)
SwapForward(tiles, from, line) ==
    IF from > line THEN tiles
    ELSE SwapForward(SwapRows(tiles, from, from + 1), from + 1, line)

SwapUpNotReversed(tiles, line) == SwapForward(tiles, 0, line)

\* for line in (0..y).rev() { tiles.swap(line, line + 1) }, from `line` down to 0
RECURSIVE SwapUp(_, _)
SwapUp(tiles, line) ==
    IF line < 0 THEN tiles ELSE SwapUp(SwapRows(tiles, line, line + 1), line - 1)

\* The scan from row y on; `cleared` is cleared_something so far.
RECURSIVE ClearFrom(_, _, _)
ClearFrom(tiles, y, cleared) ==
    IF y \notin DOMAIN tiles
    THEN [tiles |-> tiles, ret |-> cleared]
    ELSE IF RowIsFull(tiles[y])
    THEN ClearFrom(SwapUp([tiles EXCEPT ![y] = [x \in DOMAIN tiles[y] |-> None]], y - 1),
                   y + 1, TRUE)
    ELSE ClearFrom(tiles, y + 1, cleared)

ClearLines(pf) ==
    LET done == ClearFrom(pf.tiles, 0, FALSE)
    IN  [playfield |-> [pf EXCEPT !.tiles = done.tiles], ret |-> done.ret]

----------------------------------------------------------------------------
(* main.rs: the control loop.                                              *)
(*                                                                         *)
(* pc is the loop's position: "input" (line 69, rx_input.recv_timeout),    *)
(* "timer" (line 96, rx_timer.recv_timeout), "check" (line 99), "lock"     *)
(* (line 101), "clear" (line 102), "spawn" (lines 105-106), "done" (after  *)
(* the break) and "panicked".  What the input thread and the timer thread  *)
(* have sent is the loop's input: each receive either times out or yields  *)
(* any key, or a tick.                                                     *)
(***************************************************************************)

\* `after` names the core call made before it in the same iteration, and
\* `probes` holds what the collides calls of a rotate returned
Call(op, arg, ret, kick) ==
    [op |-> op, arg |-> arg, ret |-> ret, kick |-> kick, after |-> "-", probes |-> <<>>]

\* No core call was made yet in this iteration of the loop
NoCall == Call("-", "-", "Unit", -1)

Snapshot == [playfield |-> playfield, tetromino |-> tetromino]

\* The channels are empty, nothing was received, input is accepted
\* (lines 55-57)
NothingSent ==
    /\ rx_input = "none"
    /\ rx_timer = FALSE
    /\ key = "none"
    /\ tick = FALSE
    /\ accept_input = TRUE

\* The state after main's setup (lines 40-51), for the shuffle outcome perm
Setup(perm) ==
    LET pf == PlayfieldNew(Width, Height, X_SCALING, Y_SCALING)
        got == Get(Shuffle(TetrominosBagNew, perm), perm)
        spawned == Spawn(got.tetromino, pf)
    IN  /\ playfield = spawned.playfield
        /\ tetromino = spawned.tetromino
        /\ bag = got.bag
        /\ pc = IF spawned.panic \/ got.panic THEN "panicked" ELSE "input"
        /\ result = "Ok"
        /\ went_down = FALSE
        /\ pieces = 1
        /\ call = Call("spawn", "-", "Unit", -1)
        /\ pre = [playfield |-> pf, tetromino |-> got.tetromino]
        /\ drawn = <<>>
        /\ downs = 0
        /\ NothingSent

Init == \E perm \in ShuffleOutcomes(MaxShuffle) : Setup(perm)

\* A key is handled while the piece count is within the bound
Playing == pc = "input" /\ pieces <= MaxPieces

\* The effect of a core call r on the piece and the grid
Commit(r, op, arg, next) ==
    /\ playfield' = r.playfield
    /\ tetromino' = r.tetromino
    /\ call' = [Call(op, arg, r.ret, IF op = "rotate" THEN r.kick ELSE -1)
                    EXCEPT !.after = call.op,
                           !.probes = IF op = "rotate" THEN r.probes ELSE <<>>]
    /\ pre' = Snapshot
    /\ pc' = IF r.panic THEN "panicked" ELSE next

\* KeyCode::Char('q')
KeyQuit ==
    /\ pc = "input"
    /\ pc' = "done"
    /\ UNCHANGED <<playfield, tetromino, bag, result, went_down, pieces, call, pre, drawn, downs, channels, received, accept_input>>

\* KeyCode::Char('j') | KeyCode::Down
KeyDown ==
    /\ Playing
    /\ LET r == Shift(tetromino, playfield, "Down")
       IN  /\ Commit(r, "shift", "Down", "timer")
           /\ result' = r.ret
           /\ downs' = IF r.ret = "Ok" THEN downs + 1 ELSE downs
    /\ went_down' = TRUE
    /\ UNCHANGED <<bag, pieces, drawn, channels, received, accept_input>>

\* KeyCode::Char('l') | KeyCode::Left
KeyLeft ==
    /\ Playing
    /\ LET r == Shift(tetromino, playfield, "Left")
       IN  /\ Commit(r, "shift", "Left", "timer")
           /\ result' = r.ret
    /\ UNCHANGED <<bag, went_down, pieces, drawn, downs, channels, received, accept_input>>

\* KeyCode::Char('h') | KeyCode::Right
KeyRight ==
    /\ Playing
    /\ LET r == Shift(tetromino, playfield, "Right")
       IN  /\ Commit(r, "shift", "Right", "timer")
           /\ result' = r.ret
    /\ UNCHANGED <<bag, went_down, pieces, drawn, downs, channels, received, accept_input>>

\* KeyCode::Char('r')
KeyRotate ==
    /\ Playing
    /\ Commit(Rotate(tetromino, playfield, TRUE), "rotate", "clockwise", "timer")
    /\ result' = "Ok"
    /\ UNCHANGED <<bag, went_down, pieces, drawn, downs, channels, received, accept_input>>

\* KeyCode::Char('R') | KeyCode::Char('e')
KeyRotateBack ==
    /\ Playing
    /\ Commit(Rotate(tetromino, playfield, FALSE), "rotate", "counter", "timer")
    /\ result' = "Ok"
    /\ UNCHANGED <<bag, went_down, pieces, drawn, downs, channels, received, accept_input>>

\* KeyCode::Char(' ') | KeyCode::Char('J')
KeyHardDrop ==
    /\ Playing
    /\ LET r == HardDrop(tetromino, playfield)
       IN  /\ Commit(r, "hard_drop", "-", "timer")
           /\ result' = r.ret
    /\ UNCHANGED <<bag, went_down, pieces, drawn, downs, channels, received, accept_input>>

\* Any other key: Ok(())
KeyOther ==
    /\ Playing
    /\ result' = "Ok"
    /\ pc' = "timer"
    /\ UNCHANGED <<playfield, tetromino, bag, went_down, pieces, call, pre, drawn, downs, channels, received, accept_input>>

\* rx_input.recv_timeout timed out
NoKey ==
    /\ Playing
    /\ pc' = "timer"
    /\ UNCHANGED <<playfield, tetromino, bag, result, went_down, pieces, call, pre, drawn, downs, channels, received, accept_input>>

\* The gravity shift as it would be without the `&& !went_down` test
TickShiftIgnoresWentDown ==
    /\ pc = "timer"
    /\ LET r == Shift(tetromino, playfield, "Down")
       IN  /\ Commit(r, "shift", "Down", "check")
           /\ result' = r.ret
           /\ downs' = IF r.ret = "Ok" THEN downs + 1 ELSE downs
    /\ UNCHANGED <<bag, went_down, pieces, drawn, channels, received, accept_input>>

\* A tick was received and went_down is false: the gravity shift
TickShift ==
    /\ pc = "timer"
    /\ ~went_down
    /\ LET r == Shift(tetromino, playfield, "Down")
       IN  /\ Commit(r, "shift", "Down", "check")
           /\ result' = r.ret
           /\ downs' = IF r.ret = "Ok" THEN downs + 1 ELSE downs
    /\ UNCHANGED <<bag, went_down, pieces, drawn, channels, received, accept_input>>

\* A tick was received and went_down is true: the tick is dropped
TickDropped ==
    /\ pc = "timer"
    /\ went_down
    /\ pc' = "check"
    /\ UNCHANGED <<playfield, tetromino, bag, result, went_down, pieces, call, pre, drawn, downs, channels, received, accept_input>>

\* rx_timer.recv_timeout timed out
NoTick ==
    /\ pc = "timer"
    /\ pc' = "check"
    /\ UNCHANGED <<playfield, tetromino, bag, result, went_down, pieces, call, pre, drawn, downs, channels, received, accept_input>>

\* The test of line 99 as it would be with any error in the place of
\* BottomCollision
ToLockOnAnyError ==
    /\ pc = "check"
    /\ result # "Ok"
    /\ pc' = "lock"
    /\ UNCHANGED <<playfield, tetromino, bag, result, went_down, pieces, call, pre, drawn, downs, channels, received, accept_input>>

\* if let Err(ShiftError::BottomCollision) = result
ToLock ==
    /\ pc = "check"
    /\ result = "BottomCollision"
    /\ pc' = "lock"
    /\ UNCHANGED <<playfield, tetromino, bag, result, went_down, pieces, call, pre, drawn, downs, channels, received, accept_input>>

\* Otherwise the next iteration starts (lines 66-67)
NextIteration ==
    /\ pc = "check"
    /\ result # "BottomCollision"
    /\ pc' = "input"
    /\ result' = "Ok"
    /\ went_down' = FALSE
    /\ call' = NoCall
    /\ pre' = Snapshot
    /\ downs' = 0
    /\ key' = "none"
    /\ tick' = FALSE
    /\ UNCHANGED <<playfield, tetromino, bag, pieces, drawn, channels, accept_input>>

\* tetromino.place_in_playfield(&mut playfield)
Lock ==
    /\ pc = "lock"
    /\ LET r == PlaceInPlayfield(tetromino, playfield)
       IN  /\ playfield' = r.playfield
           /\ pc' = IF r.panic THEN "panicked" ELSE "clear"
    /\ call' = Call("place_in_playfield", "-", "Unit", -1)
    /\ pre' = Snapshot
    /\ UNCHANGED <<tetromino, bag, result, went_down, pieces, drawn, downs, channels, received, accept_input>>

\* playfield.clear_lines(); *accept_input.lock().unwrap() = false
Clear ==
    /\ pc = "clear"
    /\ LET r == ClearLines(playfield)
       IN  /\ playfield' = r.playfield
           /\ call' = Call("clear_lines", "-", IF r.ret THEN "true" ELSE "false", -1)
    /\ pre' = Snapshot
    /\ pc' = "spawn"
    /\ accept_input' = FALSE
    /\ UNCHANGED <<tetromino, bag, result, went_down, pieces, drawn, downs, channels, received>>

\* tetromino = bag.get(); tetromino.spawn(&mut playfield);
\* *accept_input.lock().unwrap() = true; then the next iteration starts
NextPiece ==
    /\ pc = "spawn"
    /\ \E perm \in ShuffleOutcomes(MaxShuffle) :
           LET got == Get(bag, perm)
               spawned == Spawn(got.tetromino, playfield)
           IN  /\ bag' = got.bag
               /\ playfield' = spawned.playfield
               /\ tetromino' = spawned.tetromino
               /\ pre' = [playfield |-> playfield, tetromino |-> got.tetromino]
               /\ pc' = IF got.panic \/ spawned.panic THEN "panicked" ELSE "input"
    /\ call' = Call("spawn", "-", "Unit", -1)
    /\ pieces' = pieces + 1
    /\ result' = "Ok"
    /\ went_down' = FALSE
    /\ downs' = 0
    /\ key' = "none"
    /\ tick' = FALSE
    /\ accept_input' = TRUE
    /\ UNCHANGED <<drawn, channels>>

Next ==
    \/ KeyQuit
    \/ KeyDown
    \/ KeyLeft
    \/ KeyRight
    \/ KeyRotate
    \/ KeyRotateBack
    \/ KeyHardDrop
    \/ KeyOther
    \/ NoKey
    \/ TickShift
    \/ TickDropped
    \/ NoTick
    \/ ToLock
    \/ NextIteration
    \/ Lock
    \/ Clear
    \/ NextPiece

Spec == Init /\ [][Next]_vars

----------------------------------------------------------------------------
(* The control loop under its scheduling: the loop keeps running, and the  *)
(* timer thread sends a tick every second, so that of the iterations that  *)
(* come to rx_timer.recv_timeout, some receive a tick again and again.     *)
(* Both recv_timeout calls return and the test of the result is made: the  *)
(* loop does not stay at a key, at a tick or at the test.  While a piece   *)
(* falls the loop is at one of these three, and a step that makes no core  *)
(* call is enabled at each of them.                                        *)

TickReceived == TickShift \/ TickDropped

LoopProceeds == NoKey \/ NoTick \/ ToLock \/ NextIteration

SpecLive == Init /\ [][Next]_vars /\ WF_vars(LoopProceeds) /\ SF_vars(TickReceived)

----------------------------------------------------------------------------
(* The control loop with the two threads that feed it.  A channel is       *)
(* modelled up to its head: the message that waits in it.  What a thread   *)
(* would queue behind the head it sends once the head is taken.            *)

Keys == {"q", "Down", "Left", "Right", "r", "R", "Space", "Other"}

Running == pc \notin {"done", "panicked"}

\* input_thread: poll && *accept_input.lock().unwrap(), read(), sender.send(key)
InputThread ==
    /\ Running
    /\ accept_input
    /\ rx_input = "none"
    /\ \E k \in Keys : rx_input' = k
    /\ UNCHANGED <<playfield, tetromino, bag, pc, result, went_down, pieces, call, pre,
                   drawn, downs, rx_timer, received, accept_input>>

\* timer_thread: thread::sleep(1000 ms); tx_timer.send(true)
TimerThread ==
    /\ Running
    /\ ~rx_timer
    /\ rx_timer' = TRUE
    /\ UNCHANGED <<playfield, tetromino, bag, pc, result, went_down, pieces, call, pre,
                   drawn, downs, rx_input, received, accept_input>>

\* rx_input.recv_timeout(500 ms) is Ok(key)
RecvKey ==
    /\ Playing
    /\ pieces <= MaxThreadPieces
    /\ key = "none"
    /\ rx_input # "none"
    /\ key' = rx_input
    /\ rx_input' = "none"
    /\ UNCHANGED <<playfield, tetromino, bag, pc, result, went_down, pieces, call, pre,
                   drawn, downs, rx_timer, tick, accept_input>>

\* The arms of match key.code, for the key that was received
ThreadsKeyQuit == key = "q" /\ KeyQuit
ThreadsKeyDown == key = "Down" /\ KeyDown
ThreadsKeyLeft == key = "Left" /\ KeyLeft
ThreadsKeyRight == key = "Right" /\ KeyRight
ThreadsKeyRotate == key = "r" /\ KeyRotate
ThreadsKeyRotateBack == key = "R" /\ KeyRotateBack
ThreadsKeyHardDrop == key = "Space" /\ KeyHardDrop
ThreadsKeyOther == key = "Other" /\ KeyOther

\* rx_input.recv_timeout timed out: nothing waited in the channel
ThreadsNoKey ==
    /\ key = "none"
    /\ rx_input = "none"
    /\ pieces <= MaxThreadPieces
    /\ NoKey

\* rx_timer.recv_timeout(1 ms) is Ok(true)
RecvTick ==
    /\ pc = "timer"
    /\ ~tick
    /\ rx_timer
    /\ tick' = TRUE
    /\ rx_timer' = FALSE
    /\ UNCHANGED <<playfield, tetromino, bag, pc, result, went_down, pieces, call, pre,
                   drawn, downs, rx_input, key, accept_input>>

\* `== Ok(true) && !went_down`, for the tick that was received
ThreadsTickShift == tick /\ TickShift
ThreadsTickDropped == tick /\ TickDropped

\* rx_timer.recv_timeout timed out: nothing waited in the channel
ThreadsNoTick == ~tick /\ ~rx_timer /\ NoTick

NextThreads ==
    \/ InputThread
    \/ TimerThread
    \/ RecvKey
    \/ ThreadsKeyQuit
    \/ ThreadsKeyDown
    \/ ThreadsKeyLeft
    \/ ThreadsKeyRight
    \/ ThreadsKeyRotate
    \/ ThreadsKeyRotateBack
    \/ ThreadsKeyHardDrop
    \/ ThreadsKeyOther
    \/ ThreadsNoKey
    \/ RecvTick
    \/ ThreadsTickShift
    \/ ThreadsTickDropped
    \/ ThreadsNoTick
    \/ ToLock
    \/ NextIteration
    \/ Lock
    \/ Clear
    \/ NextPiece

InitThreads == \E perm \in ShuffleOutcomes(MaxThreadShuffle) : Setup(perm)

SpecThreads == InitThreads /\ [][NextThreads]_vars

----------------------------------------------------------------------------
(* The control loop never passes Direction::Up, and it locks the piece in  *)
(* the iteration of a hard_drop.  SpecApi adds a caller of the public      *)
(* shift that passes Up, in the place of a key, and a caller of the public *)
(* hard_drop that calls it again directly after a hard_drop.               *)

ShiftUp ==
    /\ Playing
    /\ LET r == Shift(tetromino, playfield, "Up")
       IN  /\ Commit(r, "shift", "Up", "timer")
           /\ result' = r.ret
    /\ UNCHANGED <<bag, went_down, pieces, drawn, downs, channels, received, accept_input>>

HardDropAgain ==
    /\ pc = "timer"
    /\ call.op = "hard_drop"
    /\ LET r == HardDrop(tetromino, playfield)
       IN  /\ Commit(r, "hard_drop", "-", "timer")
           /\ result' = r.ret
    /\ UNCHANGED <<bag, went_down, pieces, drawn, downs, channels, received, accept_input>>

\* A caller that undoes a rotate: right after one rotate call it calls
\* rotate the other way round
RotateAgain ==
    /\ pc = "timer"
    /\ call.op = "rotate"
    /\ call.after # "rotate"
    /\ LET clockwise == call.arg = "counter"
       IN  Commit(Rotate(tetromino, playfield, clockwise), "rotate",
                  IF clockwise THEN "clockwise" ELSE "counter", "timer")
    /\ result' = "Ok"
    /\ UNCHANGED <<bag, went_down, pieces, drawn, downs, channels, received, accept_input>>

NextApi == Next \/ ShiftUp \/ HardDropAgain \/ RotateAgain

SpecApi == Init /\ [][NextApi]_vars

----------------------------------------------------------------------------
(* TetrominosBag alone, called as main calls it: a new bag, shuffled once *)
(* (or, by the identity outcome, left as built), then get after get.      *)

\* What the variables of the control loop hold while it is not running
Idle ==
    /\ tetromino = TetrominosBagNew.tetrominos[0]
    /\ result = "Ok"
    /\ went_down = FALSE
    /\ pieces = 0
    /\ call = NoCall
    /\ drawn = <<>>
    /\ downs = 0
    /\ NothingSent

InitBag ==
    /\ Idle
    /\ playfield = PlayfieldNew(Width, Height, X_SCALING, Y_SCALING)
    /\ pre = [playfield |-> playfield, tetromino |-> tetromino]
    /\ bag = TetrominosBagNew
    /\ pc = "bag"

\* bag.shuffle(), once on the new bag, before the first get
BagShuffle ==
    /\ pc = "bag"
    /\ drawn = <<>>
    /\ bag = TetrominosBagNew
    /\ \E perm \in ShuffleOutcomes(MaxBagShuffle) : bag' = Shuffle(bag, perm)
    /\ UNCHANGED <<playfield, tetromino, pc, result, went_down, pieces, call, pre, drawn, downs, channels, received, accept_input>>

\* bag.get()
BagGet ==
    /\ pc = "bag"
    /\ Len(drawn) < BAG_LEN * MaxRounds
    /\ \E perm \in ShuffleOutcomes(MaxBagShuffle) :
           LET got == Get(bag, perm)
           IN  /\ bag' = got.bag
               /\ pc' = IF got.panic THEN "panicked" ELSE "bag"
               /\ drawn' = IF got.panic THEN drawn ELSE Append(drawn, got.tetromino.shape)
    /\ UNCHANGED <<playfield, tetromino, result, went_down, pieces, call, pre, downs, channels, received, accept_input>>

NextBag == BagShuffle \/ BagGet

SpecBag == InitBag /\ [][NextBag]_vars

----------------------------------------------------------------------------
(* Playfield::clear_lines alone, on every grid of locked and empty cells   *)
(* of ClearHeight rows and ClearWidth columns.                             *)

ClearGrids ==
    [0 .. (ClearHeight - 1) -> [0 .. (ClearWidth - 1) -> {None, Playcell(FALSE, "Gray")}]]

InitClear ==
    /\ Idle
    /\ \E tiles \in ClearGrids :
           playfield = [PlayfieldNew(ClearWidth, ClearHeight, X_SCALING, Y_SCALING)
                           EXCEPT !.tiles = tiles]
    /\ pre = [playfield |-> playfield, tetromino |-> tetromino]
    /\ bag = TetrominosBagNew
    /\ pc = "clear"

\* playfield.clear_lines(), once
ClearOnce ==
    /\ pc = "clear"
    /\ LET r == ClearLines(playfield)
       IN  /\ playfield' = r.playfield
           /\ call' = Call("clear_lines", "-", IF r.ret THEN "true" ELSE "false", -1)
    /\ pre' = Snapshot
    /\ pc' = "cleared"
    /\ UNCHANGED <<tetromino, bag, result, went_down, pieces, drawn, downs, channels, received, accept_input>>

NextClear == ClearOnce

SpecClear == InitClear /\ [][NextClear]_vars

----------------------------------------------------------------------------
(* One piece of a new bag on main's empty grid of PLAYFIELD_COLS columns   *)
(* and PLAYFIELD_ROWS rows: spawn, shift(Down) until it returns            *)
(* BottomCollision, then place_in_playfield and clear_lines, as lines      *)
(* 99-102 of main do.                                                      *)

InitDrop ==
    /\ \E i \in Slots : tetromino = TetrominosBagNew.tetrominos[i]
    /\ playfield = PlayfieldNew(PLAYFIELD_COLS, PLAYFIELD_ROWS, X_SCALING, Y_SCALING)
    /\ bag = TetrominosBagNew
    /\ pc = "spawn"
    /\ result = "Ok"
    /\ went_down = FALSE
    /\ pieces = 0
    /\ call = NoCall
    /\ pre = Snapshot
    /\ drawn = <<>>
    /\ downs = 0
    /\ NothingSent

\* tetromino.spawn(&mut playfield)
DropSpawn ==
    /\ pc = "spawn"
    /\ LET spawned == Spawn(tetromino, playfield)
       IN  /\ playfield' = spawned.playfield
           /\ tetromino' = spawned.tetromino
           /\ pc' = IF spawned.panic THEN "panicked" ELSE "input"
    /\ call' = Call("spawn", "-", "Unit", -1)
    /\ pre' = Snapshot
    /\ pieces' = pieces + 1
    /\ UNCHANGED <<bag, result, went_down, drawn, downs, channels, received, accept_input>>

\* tetromino.shift(&mut playfield, Direction::Down), counted when it is Ok
DropShift ==
    /\ pc = "input"
    /\ LET r == Shift(tetromino, playfield, "Down")
       IN  /\ Commit(r, "shift", "Down",
                     IF r.ret = "BottomCollision" THEN "lock" ELSE "input")
           /\ result' = r.ret
           /\ downs' = IF r.ret = "Ok" THEN downs + 1 ELSE downs
    /\ UNCHANGED <<bag, went_down, pieces, drawn, channels, received, accept_input>>

NextDrop == DropSpawn \/ DropShift \/ Lock \/ ClearOnce

SpecDrop == InitDrop /\ [][NextDrop]_vars

----------------------------------------------------------------------------
(* Properties.                                                             *)

\* The cells of a grid that hold an active cell, and those that hold a
\* locked one
ActiveCells(tiles) ==
    {c \in UNION {{<<x, y>> : x \in DOMAIN tiles[y]} : y \in DOMAIN tiles} :
        tiles[c[2]][c[1]].some /\ tiles[c[2]][c[1]].is_active}

IsLocked(tiles, c) ==
    InGrid(c, tiles) /\ tiles[c[2]][c[1]].some /\ ~tiles[c[2]][c[1]].is_active

\* The piece is falling: it was spawned and is not locked yet
Falling == pc \in {"input", "timer", "check", "lock", "done"}

\* No operation ran into a panic
NoPanic == pc # "panicked"

\* C1: from a spawn until the matching lock the active cells of the grid are
\* exactly the four cells of the falling piece's body; after the lock and
\* before the next spawn no cell of the grid is active.
C1_ActiveCellsAreTheBody ==
    LET active == ActiveCells(playfield.tiles)
    IN  /\ Falling => (active = Cells(tetromino.body) /\ Cardinality(active) = BODY_LEN)
        /\ pc \in {"clear", "spawn"} => active = {}

\* C1's case: the second piece, after a lock, was moved by a kicked rotation
C1_Witness ==
    /\ pieces = 2
    /\ call.op = "rotate"
    /\ call.kick \in 1 .. (KICKS - 1)
    /\ pre.tetromino.body # tetromino.body
    /\ ActiveCells(playfield.tiles) = Cells(tetromino.body)

\* C2: while the piece falls, whatever shifts, rotations and hard drops were
\* called and whether they succeeded, its body is four distinct cells inside
\* the grid, none of them locked, and none of them was a locked cell of the
\* grid the last call found; no call panics.
C2_BodyInsideAndFree ==
    /\ NoPanic
    /\ Falling =>
          /\ Cardinality(Cells(tetromino.body)) = BODY_LEN
          /\ \A i \in Body :
                /\ InGrid(tetromino.body[i], playfield.tiles)
                /\ ~IsLocked(playfield.tiles, tetromino.body[i])
          /\ call.op \in {"shift", "rotate", "hard_drop"} =>
                \A i \in Body : ~IsLocked(pre.playfield.tiles, tetromino.body[i])

\* C2's case: an I-piece touching a side boundary was rotated and a kick
\* other than the first was committed
C2_Witness ==
    /\ tetromino.shape = "I"
    /\ call.op = "rotate"
    /\ call.kick \in 1 .. (KICKS - 1)
    /\ \E i \in Body :
          \/ pre.tetromino.body[i][1] = 0
          \/ pre.tetromino.body[i][1] + 1 \notin DOMAIN playfield.tiles[0]
    /\ \A i \in Body : InGrid(tetromino.body[i], playfield.tiles)

\* Where shift moves a cell to
Moved(c, direction) ==
    CASE direction = "Down"  -> <<c[1], c[2] + 1>>
      [] direction = "Up"    -> <<c[1], c[2] - 1>>
      [] direction = "Left"  -> <<c[1] + 1, c[2]>>
      [] direction = "Right" -> <<c[1] - 1, c[2]>>

\* C3: shift(Down) returns BottomCollision exactly when a body cell moved one
\* row down is below the last row or on a locked cell, and never
\* BorderCollision; shift(Left) and shift(Right) return BorderCollision
\* exactly when a moved cell is outside the columns or on a locked cell, and
\* never BottomCollision.
C3_ShiftClassification ==
    call.op = "shift" =>
        LET tiles == pre.playfield.tiles
            body == pre.tetromino.body
            below == \E i \in Body :
                        \/ Moved(body[i], "Down")[2] \notin DOMAIN tiles
                        \/ IsLocked(tiles, Moved(body[i], "Down"))
            beside == \E i \in Body :
                        \/ Moved(body[i], call.arg)[1] \notin DOMAIN tiles[body[i][2]]
                        \/ IsLocked(tiles, Moved(body[i], call.arg))
        IN  /\ call.arg = "Down" =>
                 /\ (call.ret = "BottomCollision") <=> below
                 /\ call.ret # "BorderCollision"
            /\ call.arg \in {"Left", "Right"} =>
                 /\ (call.ret = "BorderCollision") <=> beside
                 /\ call.ret # "BottomCollision"

\* C3's case: a shift to the side was refused by a locked cell, not by the
\* boundary
C3_Witness ==
    /\ call.op = "shift"
    /\ call.arg = "Left"
    /\ call.ret = "BorderCollision"
    /\ \A i \in Body : InGrid(Moved(pre.tetromino.body[i], "Left"), pre.playfield.tiles)
    /\ \E i \in Body : IsLocked(pre.playfield.tiles, Moved(pre.tetromino.body[i], "Left"))

\* A grid cell by cell: what change_position leaves of `tiles` when the body
\* goes from `old` to `new`
Repainted(tiles, old, new, color) ==
    [y \in DOMAIN tiles |-> [x \in DOMAIN tiles[y] |->
        IF <<x, y>> \in Cells(new) THEN Playcell(TRUE, color)
        ELSE IF <<x, y>> \in Cells(old) THEN None
        ELSE tiles[y][x]]]

\* Every cell of `body` is inside the grid and not locked
Accepted(body, tiles) ==
    \A i \in DOMAIN body : InGrid(body[i], tiles) /\ ~IsLocked(tiles, body[i])

\* C4: a shift whose moved body the collision check accepts translates all
\* four cells by the unit offset of the direction (Left: column+1, Right:
\* column-1, Down: row+1, Up: row-1), repaints the grid to match and keeps
\* the rotation state; a shift that returns an error leaves the piece and
\* the whole grid as they were.
C4_ShiftMovesOrLeaves ==
    call.op = "shift" =>
        LET moved == [i \in Body |-> Moved(pre.tetromino.body[i], call.arg)]
        IN  /\ (call.ret = "Ok") <=> Accepted(moved, pre.playfield.tiles)
            /\ call.ret = "Ok" =>
                  /\ tetromino = [pre.tetromino EXCEPT !.body = moved]
                  /\ playfield = [pre.playfield EXCEPT !.tiles =
                        Repainted(pre.playfield.tiles, pre.tetromino.body, moved,
                                  pre.tetromino.color)]
            /\ call.ret # "Ok" =>
                  /\ call.ret \in {"BorderCollision", "BottomCollision"}
                  /\ tetromino = pre.tetromino
                  /\ playfield = pre.playfield

\* C4's case: the second piece was shifted to the Left and moved
C4_Witness ==
    /\ pieces = 2
    /\ call.op = "shift"
    /\ call.arg = "Left"
    /\ call.ret = "Ok"
    /\ tetromino.body # pre.tetromino.body

\* What repeating shift(Down) until it returns BottomCollision leaves
RECURSIVE RepeatShiftDown(_, _)
RepeatShiftDown(t, pf) ==
    LET r == Shift(t, pf, "Down")
    IN  IF r.ret = "Ok"
        THEN RepeatShiftDown(r.tetromino, r.playfield)
        ELSE [tetromino |-> t, playfield |-> pf, ret |-> r.ret]

\* `body` moved down by n rows
Lowered(body, n) == [i \in Body |-> <<body[i][1], body[i][2] + n>>]

\* C5: hard_drop leaves the piece and the grid as repeating shift(Down) until
\* the first BottomCollision leaves them: the body is moved straight down by
\* the largest number of rows for which every position on the way is free,
\* the rotation state is kept, and hard_drop returns BottomCollision.
C5_HardDropIsRepeatedShiftDown ==
    call.op = "hard_drop" =>
        LET ref == RepeatShiftDown(pre.tetromino, pre.playfield)
            tiles == pre.playfield.tiles
            body == pre.tetromino.body
        IN  /\ call.ret = "BottomCollision"
            /\ ref.ret = "BottomCollision"
            /\ tetromino = ref.tetromino
            /\ playfield = ref.playfield
            /\ tetromino.rotation = pre.tetromino.rotation
            /\ \E n \in 0 .. Cardinality(DOMAIN tiles) :
                  /\ tetromino.body = Lowered(body, n)
                  /\ \A k \in 0 .. n : Accepted(Lowered(body, k), tiles)
                  /\ ~Accepted(Lowered(body, n + 1), tiles)

\* C5's case: a hard drop moved the piece down until it came to rest on a
\* locked cell
C5_Witness ==
    /\ call.op = "hard_drop"
    /\ tetromino.body # pre.tetromino.body
    /\ \E i \in Body : IsLocked(playfield.tiles, Moved(tetromino.body[i], "Down"))

\* The rows of a grid in which no cell is empty
FullRows(tiles) == {y \in DOMAIN tiles : \A x \in DOMAIN tiles[y] : tiles[y][x] # None}

\* C6: clear_lines turns a grid without active cells into the grid without
\* its full rows: each row that is not full drops by the number of full rows
\* below it, one empty row per full row is added at the top, and it returns
\* true exactly when some row was full.
C6_ClearLinesDeletesFullRows ==
    call.op = "clear_lines" =>
        LET tiles == pre.playfield.tiles
            full == FullRows(tiles)
            below(y) == Cardinality({f \in full : f > y})
        IN  /\ ActiveCells(tiles) = {}
            /\ DOMAIN playfield.tiles = DOMAIN tiles
            /\ \A y \in DOMAIN tiles \ full : playfield.tiles[y + below(y)] = tiles[y]
            /\ \A r \in DOMAIN tiles :
                  r < Cardinality(full) =>
                      playfield.tiles[r] = [x \in DOMAIN tiles[r] |-> None]
            /\ (call.ret = "true") <=> (full # {})
            /\ playfield = [pre.playfield EXCEPT !.tiles = playfield.tiles]

\* C6's case: the two bottom rows were full, and a row above them that is
\* neither full nor empty dropped by two
C6_Witness ==
    /\ call.op = "clear_lines"
    /\ call.ret = "true"
    /\ LET tiles == pre.playfield.tiles
           last == Cardinality(DOMAIN tiles) - 1
       IN  /\ FullRows(tiles) = {last - 1, last}
           /\ tiles[last - 2] # [x \in DOMAIN tiles[0] |-> None]
           /\ playfield.tiles[last] = tiles[last - 2]

\* C7: a BottomCollision returned by a shift(Down) or a hard_drop is the
\* iteration's final result (that of hard_drop also when a gravity tick is
\* handled after it), and the iteration then locks the piece, runs
\* clear_lines, takes the next piece from the bag and spawns it, in that
\* order and before any command; an iteration whose final result is Ok or
\* BorderCollision does not lock.
C7_BottomCollisionLocksThenClearsThenSpawns ==
    [][/\ (pc \in {"timer", "check"} /\ call.ret = "BottomCollision") =>
              result = "BottomCollision"
       /\ (pc = "timer" /\ result = "BottomCollision") => result' = "BottomCollision"
       /\ pc = "check" => (pc' = IF result = "BottomCollision" THEN "lock" ELSE "input")
       /\ pc' = "lock" => (pc = "check" /\ result = "BottomCollision")
       /\ pc = "lock" =>
              /\ pc' = "clear"
              /\ call'.op = "place_in_playfield"
              /\ tetromino' = tetromino
              /\ \A i \in Body : IsLocked(playfield'.tiles, tetromino.body[i])
       /\ pc = "clear" =>
              /\ pc' = "spawn"
              /\ call'.op = "clear_lines"
              /\ tetromino' = tetromino
       /\ pc = "spawn" =>
              /\ pc' = "input"
              /\ call'.op = "spawn"
              /\ pieces' = pieces + 1
              /\ bag'.index \in 1 .. BAG_LEN
              /\ pre'.tetromino = bag'.tetrominos[bag'.index - 1]
              /\ tetromino'.shape = pre'.tetromino.shape]_vars

\* C7's case: a hard drop, then a gravity tick handled in the same
\* iteration, and the iteration is about to lock the piece
C7_Witness ==
    /\ pc = "lock"
    /\ result = "BottomCollision"
    /\ ~went_down
    /\ call.op = "shift"
    /\ call.arg = "Down"
    /\ call.after = "hard_drop"

\* How often `shape` is among the first n draws
Occurrences(shape, n) == Cardinality({i \in 1 .. n : drawn[i] = shape})

\* C8: for every N >= 1, the first 7*N pieces that get returned from a new
\* bag, shuffled first or not, hold each of the 7 shapes exactly N times, and
\* the N-th block of 7 draws is a permutation of the 7 shapes.
C8_EveryBlockOfSevenIsAPermutation ==
    /\ NoPanic
    /\ \A N \in 1 .. (Len(drawn) \div BAG_LEN) :
          /\ \A shape \in Shapes : Occurrences(shape, BAG_LEN * N) = N
          /\ {drawn[i] : i \in (BAG_LEN * (N - 1) + 1) .. (BAG_LEN * N)} = Shapes

\* C8's case: two blocks were drawn from a bag that was shuffled first, and
\* the reshuffle between them gave the second block another order
C8_Witness ==
    /\ Len(drawn) = 2 * BAG_LEN
    /\ drawn[1] # "O"
    /\ \E i \in 1 .. BAG_LEN : drawn[i] # drawn[BAG_LEN + i]
    /\ \A shape \in Shapes : Occurrences(shape, 2 * BAG_LEN) = 2

\* The body turned a quarter about body[0]: clockwise sends a cell that is
\* dx columns and dy rows from the pivot to -dy columns and dx rows from it,
\* counter-clockwise to dy columns and -dx rows
Turned(body, clockwise) ==
    [i \in Body |->
        LET dx == body[i][1] - body[0][1]
            dy == body[i][2] - body[0][2]
        IN  IF clockwise THEN <<body[0][1] - dy, body[0][2] + dx>>
                         ELSE <<body[0][1] + dy, body[0][2] - dx>>]

\* The state a quarter turn leads to
TurnOrder == <<"Normal", "QuarterTurned", "HalfTurned", "ThreeQuartersTurned">>

Destination(rotation, clockwise) ==
    LET at == CHOOSE n \in 1 .. 4 : TurnOrder[n] = rotation
    IN  TurnOrder[((at - 1 + (IF clockwise THEN 1 ELSE 3)) % 4) + 1]

\* The k-th kick of a transition: origin-state offset minus destination-state
\* offset at index k of the shape's table
KickOf(shape, origin, destination, k) ==
    LET table == IF shape = "I" THEN FromRotationI ELSE FromRotationOther
    IN  <<table[origin][k + 1][1] - table[destination][k + 1][1],
          table[origin][k + 1][2] - table[destination][k + 1][2]>>

\* The rotate call the state records, and the kicks of its transition
RotateCall == call.op = "rotate" /\ pre.tetromino.shape # "O"

Clockwise == call.arg = "clockwise"

CallKick(k) ==
    KickOf(pre.tetromino.shape, pre.tetromino.rotation,
           Destination(pre.tetromino.rotation, Clockwise), k)

\* The k-th candidate with the kick's delta-row subtracted from the rows, and
\* with it added to them
CandidateSub(k) ==
    LET turned == Turned(pre.tetromino.body, Clockwise)
        kick == CallKick(k)
    IN  [i \in Body |-> <<turned[i][1] + kick[1], turned[i][2] - kick[2]>>]

CandidateAdd(k) ==
    LET turned == Turned(pre.tetromino.body, Clockwise)
        kick == CallKick(k)
    IN  [i \in Body |-> <<turned[i][1] + kick[1], turned[i][2] + kick[2]>>]

AcceptedSub == {k \in Kicks : Accepted(CandidateSub(k), pre.playfield.tiles)}

AcceptedAdd == {k \in Kicks : Accepted(CandidateAdd(k), pre.playfield.tiles)}

\* C9 as stated: for a non-O piece the candidates are the body turned about
\* body[0] with each kick's (delta-col, delta-row) added to every cell's
\* column and row, and the first of the 5 that the collision check accepts
\* is the new body.
C9_KickAddedToColumnAndRow ==
    (RotateCall /\ AcceptedAdd # {}) =>
        tetromino.body = CandidateAdd(Min(AcceptedAdd))

\* C9: for a non-O piece, rotate turns the body a quarter about body[0] and
\* tries the 5 kicks of the transition in table order, each the origin-state
\* offset minus the destination-state offset at the same index of the shape's
\* table; each candidate is the turned body with the kick's delta-col added
\* to every cell's column and its delta-row subtracted from every cell's row;
\* the first candidate the collision check accepts is committed as the new
\* body (grid repainted, rotation state advanced) and no later one is tried.
C9_FirstAcceptedKickIsCommitted ==
    RotateCall =>
        LET accepted == AcceptedSub
            first == Min(accepted)
        IN  accepted # {} =>
            /\ call.kick = first
            /\ tetromino = [pre.tetromino EXCEPT
                               !.body = CandidateSub(first),
                               !.rotation = Destination(pre.tetromino.rotation, Clockwise)]
            /\ playfield = [pre.playfield EXCEPT !.tiles =
                               Repainted(pre.playfield.tiles, pre.tetromino.body,
                                         CandidateSub(first), pre.tetromino.color)]

\* C9's case: earlier kicks were rejected, a later one was accepted too, and
\* the committed kick moved the pivot to another row
C9_Witness ==
    /\ RotateCall
    /\ call.kick \in 1 .. (KICKS - 1)
    /\ \E k \in AcceptedSub : k > call.kick
    /\ CallKick(call.kick)[2] # 0
    /\ tetromino.body[0][2] # pre.tetromino.body[0][2]

\* C10: when the collision check accepts none of the 5 candidates of a rotate
\* call, the body, the rotation state and every grid cell are as before the
\* call, and the caller gets nothing back: the iteration's result stays Ok.
C10_RejectedRotationChangesNothing ==
    (RotateCall /\ AcceptedSub = {}) =>
        /\ tetromino = pre.tetromino
        /\ playfield = pre.playfield
        /\ call.ret = "Unit"
        /\ call.kick = KICKS
        /\ result = "Ok"
        /\ NoPanic

\* C10's case: a rotation of the second piece, next to locked cells, was
\* rejected at all 5 kicks
C10_Witness ==
    /\ RotateCall
    /\ AcceptedSub = {}
    /\ pieces = 2
    /\ \E i \in Body : \E d \in {<<1, 0>>, <<-1, 0>>, <<0, 1>>} :
          IsLocked(playfield.tiles, <<tetromino.body[i][1] + d[1], tetromino.body[i][2] + d[2]>>)
    /\ tetromino = pre.tetromino

\* A step of the piece that is falling (a spawn brings in another piece):
\* its rotation state changes only with a rotate call that commits a kick,
\* and such a call moves it one step along the cycle of the call's direction
RotationStep ==
    pc # "spawn" =>
        /\ (tetromino'.rotation # tetromino.rotation) =>
              (call'.op = "rotate" /\ call'.kick \in Kicks /\ pc = "input")
        /\ (call'.op = "rotate" /\ call'.kick \in Kicks /\ pc = "input") =>
              tetromino'.rotation = Destination(tetromino.rotation, call'.arg = "clockwise")

\* C11: the rotation state of the falling piece changes only in a step that
\* is a rotate call committing a kick, and then by exactly one step of
\* Normal -> QuarterTurned -> HalfTurned -> ThreeQuartersTurned -> Normal for
\* a clockwise call and one step the other way round for a counter-clockwise
\* one; a step that is a shift, a hard_drop or a rejected rotate keeps it.
C11_RotationStepsOnlyOnCommittedKick == [][RotationStep]_vars

\* C11's case: a counter-clockwise rotate committed a kick after the first
\* try and took the piece from Normal to ThreeQuartersTurned
C11_Witness ==
    /\ call.op = "rotate"
    /\ call.arg = "counter"
    /\ call.kick \in 1 .. (KICKS - 1)
    /\ pre.tetromino.rotation = "Normal"
    /\ tetromino.rotation = "ThreeQuartersTurned"

\* C12: a rotate call on an O, clockwise or counter-clockwise, wherever the
\* piece is and whatever the grid holds, leaves the body, the rotation state
\* and every cell of the grid as they were.
C12_RotateLeavesTheO ==
    (call.op = "rotate" /\ pre.tetromino.shape = "O") =>
        /\ tetromino = pre.tetromino
        /\ playfield = pre.playfield
        /\ tetromino.rotation = "Normal"

\* C12's case: the second piece is an O that was moved from its spawn cells,
\* stands next to locked cells and was then rotated counter-clockwise
C12_Witness ==
    /\ call.op = "rotate"
    /\ call.arg = "counter"
    /\ pre.tetromino.shape = "O"
    /\ pieces = 2
    /\ tetromino.body[0][1] # GetXMidpoint(playfield) - 1
    /\ \E i \in Body : \E d \in {<<1, 0>>, <<-1, 0>>, <<0, 1>>} :
          IsLocked(playfield.tiles, <<tetromino.body[i][1] + d[1], tetromino.body[i][2] + d[2]>>)

\* What one coordinate is to the collision check as C13 words it: a row
\* outside the grid is BottomCollision for Down and BorderCollision for the
\* other directions, a column outside the grid is BorderCollision, a locked
\* cell is BottomCollision for Down and BorderCollision otherwise, and an
\* empty or active cell is no collision
ClassifiedCell(c, tiles, direction) ==
    IF c[2] \notin DOMAIN tiles
    THEN (IF direction = "Down" THEN "BottomCollision" ELSE "BorderCollision")
    ELSE IF c[1] \notin DOMAIN tiles[c[2]] THEN "BorderCollision"
    ELSE IF IsLocked(tiles, c)
    THEN (IF direction = "Down" THEN "BottomCollision" ELSE "BorderCollision")
    ELSE "Ok"

\* The class of the first coordinate of `body`, in index order, that offends
Classified(body, tiles, direction) ==
    LET offending == {i \in Body : ClassifiedCell(body[i], tiles, direction) # "Ok"}
    IN  IF offending = {} THEN "Ok"
        ELSE ClassifiedCell(body[Min(offending)], tiles, direction)

\* C13: collides returns the class of the first offending coordinate, where
\* a row outside the grid is BottomCollision only for Down (a probe of
\* rotate, made with Up, never yields BottomCollision), a column outside
\* the grid is BorderCollision, a locked cell is BottomCollision for Down
\* and BorderCollision otherwise, and empty and active cells do not collide.
C13_RowOutsideIsBottomOnlyForDown ==
    /\ RotateCall =>
          \A n \in 1 .. Len(call.probes) :
              /\ call.probes[n] = Classified(CandidateSub(n - 1), pre.playfield.tiles, "Up")
              /\ call.probes[n] # "BottomCollision"
    /\ (call.op = "shift" /\ ~ShiftUnderflows(pre.tetromino.body, call.arg)) =>
          call.ret = Classified([i \in Body |-> Moved(pre.tetromino.body[i], call.arg)],
                                pre.playfield.tiles, call.arg)

\* C14: a hard_drop called directly after a hard_drop leaves the body of the
\* piece and every cell of the grid as the first call left them, and both
\* calls return BottomCollision.
C14_HardDropTwiceIsHardDropOnce ==
    /\ call.op = "hard_drop" => (call.ret = "BottomCollision" /\ NoPanic)
    /\ (call.op = "hard_drop" /\ call.after = "hard_drop") =>
          /\ tetromino = pre.tetromino
          /\ playfield = pre.playfield
          /\ result = "BottomCollision"

\* C14's case: the second piece was dropped onto locked cells from above
\* and hard_drop was called on it again
C14_Witness ==
    /\ call.op = "hard_drop"
    /\ call.after = "hard_drop"
    /\ pieces = 2
    /\ \A i \in Body : tetromino.body[i][2] < Height - 1
    /\ \E i \in Body :
          IsLocked(playfield.tiles, <<tetromino.body[i][1], tetromino.body[i][2] + 1>>)

\* The columns a body spans, and the locked cells of a grid
Extent(body) ==
    LET xs == {body[i][1] : i \in Body}
    IN  (CHOOSE m \in xs : \A n \in xs : m >= n) - Min(xs) + 1

LockedCells(tiles) ==
    {c \in UNION {{<<x, y>> : x \in DOMAIN tiles[y]} : y \in DOMAIN tiles} :
        IsLocked(tiles, c)}

\* C15: on the empty grid of 10 columns and 20 rows, spawn adds the grid's
\* midpoint less half the piece's extent to every column and keeps the rows,
\* so an O takes columns 4 and 5 of rows 0 and 1; exactly 18 shift(Down)
\* calls in a row return Ok and the 19th returns BottomCollision with the O
\* in the two bottom rows; after place_in_playfield the grid holds those 4
\* locked cells and nothing else, and clear_lines returns false.
C15_TheOFallsEighteenRows ==
    /\ NoPanic
    /\ call.op = "spawn" =>
          /\ tetromino.body =
                [i \in Body |->
                    <<pre.tetromino.body[i][1]
                          + ((PLAYFIELD_COLS \div 2) - (Extent(pre.tetromino.body) \div 2)),
                      pre.tetromino.body[i][2]>>]
          /\ tetromino.shape = "O" => Cells(tetromino.body) = {4, 5} \X {0, 1}
    /\ (tetromino.shape = "O" /\ call.op = "shift") =>
          /\ call.ret = "Ok" => downs <= 18
          /\ call.ret # "Ok" =>
                /\ call.ret = "BottomCollision"
                /\ downs = 18
                /\ Cells(tetromino.body) = {4, 5} \X {18, 19}
    /\ (tetromino.shape = "O" /\ call.op = "place_in_playfield") =>
          /\ LockedCells(playfield.tiles) = {4, 5} \X {18, 19}
          /\ ActiveCells(playfield.tiles) = {}
          /\ \A y \in DOMAIN playfield.tiles : \A x \in DOMAIN playfield.tiles[y] :
                playfield.tiles[y][x].some <=> <<x, y>> \in {4, 5} \X {18, 19}
    /\ (tetromino.shape = "O" /\ call.op = "clear_lines") =>
          /\ call.ret = "false"
          /\ playfield = pre.playfield
          /\ LockedCells(playfield.tiles) = {4, 5} \X {18, 19}

\* C15's case: the O was spawned, went down 18 rows, was locked, and
\* clear_lines ran
C15_Witness ==
    /\ tetromino.shape = "O"
    /\ pc = "cleared"
    /\ downs = 18
    /\ call.op = "clear_lines"
    /\ result = "BottomCollision"

\* C16: each time the control loop calls spawn, the four cells the piece is
\* spawned into are empty in the grid the call finds, so that no locked cell
\* is overwritten or made active, however high the locked pieces stand.
C16_SpawnCellsAreEmpty ==
    call.op = "spawn" =>
        /\ NoPanic
        /\ \A i \in Body :
              ~pre.playfield.tiles[tetromino.body[i][2]][tetromino.body[i][1]].some
        /\ LockedCells(playfield.tiles) = LockedCells(pre.playfield.tiles)

\* A piece is falling and keys are taken, and the falling piece was locked
\* or the loop is over.  Pieces are locked in the order they are spawned, so
\* the first lock after a state with a falling piece is the lock of that piece.
PieceFalls == pc \in {"input", "timer", "check"} /\ pieces <= MaxPieces

LockedOrOver == pc \in {"lock", "clear", "spawn", "done", "panicked"}

\* C17: while ticks keep being received, every piece that is spawned is
\* locked in the end (unless the player quits), whatever shifts, rotations
\* and hard drops the player's keys call in between.
C17_EveryPieceIsLockedInTheEnd == PieceFalls ~> LockedOrOver

----------------------------------------------------------------------------
\* A thread puts a message into its channel
Sends ==
    \/ rx_input = "none" /\ rx_input' # "none"
    \/ ~rx_timer /\ rx_timer'

\* The step is a shift(Down) call
CallsShiftDown ==
    /\ call' # call
    /\ call'.op = "shift"
    /\ call'.arg = "Down"

\* The step handles a tick that was received
HandlesTick == pc = "timer" /\ tick /\ pc' # "timer"

OneDownPerIteration ==
    /\ downs' <= 1
    /\ HandlesTick =>
          IF key = "Down"
          THEN /\ call' = call
               /\ UNCHANGED <<playfield, tetromino, downs>>
          ELSE /\ call'.op = "shift"
               /\ call'.arg = "Down"
               /\ call'.after = call.op
    /\ CallsShiftDown => \/ pc = "input" /\ key = "Down"
                         \/ pc = "timer" /\ tick /\ key # "Down"
    /\ Sends => UNCHANGED <<playfield, tetromino, pc, call>>
    /\ (playfield' # playfield \/ tetromino' # tetromino) =>
          /\ ~Sends
          /\ pc' # pc
          /\ call'.op \in {"shift", "rotate", "hard_drop", "place_in_playfield",
                           "clear_lines", "spawn"}

\* C18: in one iteration of the control loop at most one shift(Down)
\* returns Ok; a tick received after a manual Down is consumed with no call,
\* any other received tick is followed by exactly one shift(Down) call; the
\* input and timer threads only send, and every change of the grid or the
\* piece is one call made by a step of the loop.
C18_OneDownPerIterationAndLoopAloneMutates == [][OneDownPerIteration]_vars

\* A manual Down returned Ok and the tick received after it was consumed
C18_Witness ==
    /\ pc = "check"
    /\ key = "Down"
    /\ tick
    /\ went_down
    /\ downs = 1
    /\ call.op = "shift"
    /\ call.arg = "Down"
    /\ call.ret = "Ok"

----------------------------------------------------------------------------
\* The locked cells of a grid with their colours
LockedTiles(tiles) == [c \in LockedCells(tiles) |-> tiles[c[2]][c[1]]]

\* shift, rotate and hard_drop leave every locked cell as it was
MovesKeepLocked ==
    call.op \in {"shift", "rotate", "hard_drop"} =>
        LockedTiles(playfield.tiles) = LockedTiles(pre.playfield.tiles)

\* place_in_playfield turns the four body cells into locked cells and
\* leaves every other cell as it was
LockAddsTheBody ==
    (call.op = "place_in_playfield" /\ NoPanic) =>
        LET before == pre.playfield.tiles
            after == playfield.tiles
            body == Cells(pre.tetromino.body)
        IN  /\ Cardinality(body) = BODY_LEN
            /\ LockedCells(after) = LockedCells(before) \cup body
            /\ LockedCells(before) \cap body = {}
            /\ \A c \in body : after[c[2]][c[1]].color = pre.tetromino.color
            /\ \A y \in DOMAIN after : \A x \in DOMAIN after[y] :
                  <<x, y>> \notin body => after[y][x] = before[y][x]

\* No other call than clear_lines removes or moves a locked cell, and no
\* other call than place_in_playfield adds one
OnlyLockAddsOnlyClearRemoves ==
    /\ call.op \notin {"clear_lines", "-"} =>
          \A c \in LockedCells(pre.playfield.tiles) :
              /\ IsLocked(playfield.tiles, c)
              /\ playfield.tiles[c[2]][c[1]] = pre.playfield.tiles[c[2]][c[1]]
    /\ call.op \notin {"place_in_playfield", "clear_lines", "-"} =>
          LockedCells(playfield.tiles) \subseteq LockedCells(pre.playfield.tiles)

\* C19: shift, rotate and hard_drop, with any result, leave the locked cells
\* and their colours as they were; place_in_playfield adds exactly the four
\* body cells to the locked cells and changes no other cell; no call but
\* clear_lines removes or moves a locked cell.
C19_LockedCellsChangeOnlyByLockAndClear ==
    /\ MovesKeepLocked
    /\ LockAddsTheBody
    /\ OnlyLockAddsOnlyClearRemoves

----------------------------------------------------------------------------
\* The step is a rotate call that follows a rotate call the other way
\* round, and each of the two committed its first try
RotatesBack ==
    /\ call.op = "rotate"
    /\ call.kick = 0
    /\ call'.op = "rotate"
    /\ call'.after = "rotate"
    /\ call'.arg # call.arg
    /\ call'.kick = 0
    /\ pre.tetromino.shape # "O"

RotateBackRestores ==
    RotatesBack =>
        /\ tetromino' = pre.tetromino
        /\ playfield' = pre.playfield
        /\ pre'.tetromino = tetromino
        /\ pre'.tetromino # pre.tetromino

\* C20: for a piece other than the O, in any rotation state, rotate one way
\* and then the other way, each call committing its first try, gives back
\* the body with every cell at its index (body[0] the pivot), the rotation
\* state and the grid, whichever direction comes first.
C20_RotateThereAndBackRestores == [][RotateBackRestores]_vars

\* An I that is not in its spawn rotation was turned counter-clockwise and
\* back beside locked cells, each call committing its first try
C20_Witness ==
    /\ call.op = "rotate"
    /\ call.after = "rotate"
    /\ call.arg = "clockwise"
    /\ call.kick = 0
    /\ tetromino.shape = "I"
    /\ tetromino.rotation = "QuarterTurned"
    /\ pre.tetromino.rotation = "Normal"
    /\ Rotate(tetromino, playfield, FALSE).tetromino = pre.tetromino
    /\ Rotate(tetromino, playfield, FALSE).kick = 0
    /\ LockedCells(playfield.tiles) # {}

====
